---- MODULE Spec2Model ----
(***************************************************************************)
(* State-machine model of the App component of src/index.tsx: the React    *)
(* state hooks, the interactionState ref, and the asynchronous work the    *)
(* handlers leave pending (image loads, description requests, harmonize    *)
(* requests).  Every macrotask of the browser (a UI event, an image load,  *)
(* a network answer) is one action; the microtask continuations it runs    *)
(* (Promise.all settling, catch/finally blocks) belong to the same action. *)
(* Numbers are exact rationals <<n, d>>: every geometric quantity of the   *)
(* code is computed by the same expression wherever it is compared, so     *)
(* rounding plays no part in the properties below.                         *)
(***************************************************************************)
EXTENDS Integers, Sequences, FiniteSets, TLC

\* ------------------------------------------------------------------ bounds
MaxPlaced   == 2     \* placements on the workspace at once
MaxBatch    == 2     \* files in one product upload
MaxCatalog  == 2     \* entries in the catalog
MaxClock    == 2     \* values Date.now() takes
MaxInFlight == 2     \* harmonize requests the model can hold in flight
MaxExtent   == 260   \* |x|, |y| and width stay within this many pixels

\* ------------------------------------------------------- program constants
InitialWidth == 150
HalfInitialWidth == 75
MinWidth == 20

\* ------------------------------------------------------------- rationals
Abs(n) == IF n < 0 THEN -n ELSE n

RECURSIVE GCD(_, _)
GCD(a, b) == IF b = 0 THEN a ELSE GCD(b, a % b)

\* n/d in lowest terms with a positive denominator (d # 0)
Rat(n, d) ==
    LET g == GCD(Abs(n), Abs(d))
        s == IF d < 0 THEN -1 ELSE 1
    IN  <<(s * n) \div g, (s * d) \div g>>

RInt(n)    == <<n, 1>>
RAdd(a, b) == Rat(a[1] * b[2] + b[1] * a[2], a[2] * b[2])
RSub(a, b) == Rat(a[1] * b[2] - b[1] * a[2], a[2] * b[2])
RDiv(a, b) == Rat(a[1] * b[2], a[2] * b[1])
RGt(a, b)  == a[1] * b[2] > b[1] * a[2]
RGe(a, b)  == a[1] * b[2] >= b[1] * a[2]
RAbsLe(a, n) == Abs(a[1]) <= n * a[2]

\* ------------------------------------------------------------- options
None     == <<>>
Some(x)  == <<x>>
IsSome(o) == o # <<>>
Get(o)   == o[1]

\* ------------------------------------------------------------- inputs
NoImage       == "null"
RoomImages    == {"room1", "room2"}
\* images the generation service can return; "none" is a response without
\* an inline image part
GeneratedImages == {"gen1"}
NoImagePart   == "none"
\* `data:${mimeType};base64,${data}` of an inline image part (line 310)
DataUrl(part) == IF part = "gen1" THEN "data:image/png;base64,gen1" ELSE part

\* data URLs a user can pick as product files; "malformed" has no
\* base64 payload or no mime type
ProductUrls   == {"chair", "malformed"}
\* drags that do not start in the catalog (another page or window can
\* put any application/json payload on the drag)
LampDrag      == [src |-> "lamp", description |-> "a floor lamp"]
ChairDrag     == [src |-> "chair", description |-> "a modern armchair"]
ExternalDrags == {LampDrag, ChairDrag}

\* natural size of the image behind a src; <<0, 0>>: the image never loads
NaturalSize(src) ==
    CASE src = "chair"  -> <<300, 200>>
      [] src = "lamp"   -> <<100, 200>>
      [] OTHER          -> <<0, 0>>

\* texts the description service can answer with
DescriptionTexts == {" a modern armchair\n"}
Trim(t) == IF t = " a modern armchair\n" THEN "a modern armchair" ELSE t

\* pointer positions (clientX, clientY) of drops and mouse events
DropPoints  == {<<500, 300>>}
MousePoints == {<<500, 300>>, <<300, 100>>}

\* workspaceRef.current.getBoundingClientRect(): the aside is w-80 (320px)
\* and the main area has p-6 (24px) padding
WorkspaceRect == [left |-> 344, top |-> 24]

MsgAddProduct ==
    "Please add a product to the room before harmonizing."
MsgHarmonizeFailed ==
    "Sorry, we couldn't harmonize your image. Please try again."
MsgDescribeFailed ==
    "Could not generate product descriptions. Please try again."
NoError == "null"

\* ------------------------------------------------------------- state
VARIABLES
    originalRoomImage,     \* useState, line 27
    displayImage,          \* useState, line 28
    availableProducts,     \* useState, line 29
    placedProducts,        \* useState, line 30
    selectedProductId,     \* useState, line 31 (0: null)
    isLoading,             \* useState, line 32
    isProcessingProducts,  \* useState, line 33
    error,                 \* useState, line 35
    previousState,         \* useState, line 36 (None or Some(snapshot))
    interactionState,      \* useRef, line 42 (None or Some(gesture))
    listeners,             \* window listeners installed by handleMouseDown
    now,                   \* last value Date.now() returned
    pendingImages,         \* images created by handleDrop, not yet loaded
    harmonizeCalls,        \* handleHarmonize invocations awaiting something
    batch,                 \* the Promise.all of the last handleProductUpload
    ev,                    \* the event the last step handled
    hist                   \* fresh: the last harmonize attempt succeeded and
                           \* no placement or room was added since;
                           \* atInvoke: displayImage and placedProducts
                           \* when handleHarmonize was last invoked

vars == <<originalRoomImage, displayImage, availableProducts, placedProducts,
          selectedProductId, isLoading, isProcessingProducts, error,
          previousState, interactionState, listeners, now, pendingImages,
          harmonizeCalls, batch, ev, hist>>

sessionVars  == <<originalRoomImage, displayImage, placedProducts,
                  previousState, isLoading, error>>
catalogVars  == <<availableProducts, isProcessingProducts, batch>>
gestureVars  == <<interactionState, listeners>>

\* an event: its kind, a detail of it, and the pointer position it carries
EventAt(type, arg, pt) == [type |-> type, arg |-> arg, pt |-> pt]
Event(type, arg) == EventAt(type, arg, <<0, 0>>)

NoBatch == [reqs |-> <<>>, results |-> <<>>, settled |-> "none",
            base |-> <<>>, errors |-> 0]

Init ==
    /\ originalRoomImage = NoImage
    /\ displayImage = NoImage
    /\ availableProducts = <<>>
    /\ placedProducts = <<>>
    /\ selectedProductId = 0
    /\ isLoading = FALSE
    /\ isProcessingProducts = FALSE
    /\ error = NoError
    /\ previousState = None
    /\ interactionState = None
    /\ listeners = {}
    /\ now = 1
    /\ pendingImages = <<>>
    /\ harmonizeCalls = <<>>
    /\ batch = NoBatch
    /\ ev = Event("init", "")
    /\ hist = [fresh |-> FALSE, atInvoke |-> None]

\* ------------------------------------------------------------- helpers
Remove(s, k) == [i \in 1..(Len(s) - 1) |-> IF i < k THEN s[i] ELSE s[i + 1]]

Range(s) == {s[i] : i \in 1..Len(s)}

\* ------------------------------------------------------------- room
\* handleRoomUpload(urls), reached from the file input through
\* handleFileChange once the FileReader has read the file
handleRoomUpload(url) ==
    /\ originalRoomImage' = url
    /\ displayImage' = url
    /\ placedProducts' = <<>>
    /\ ev' = Event("roomUpload", url)
    /\ hist' = [hist EXCEPT !.fresh = FALSE]
    /\ UNCHANGED <<selectedProductId, isLoading, error, previousState,
                   now, pendingImages, harmonizeCalls>>
    /\ UNCHANGED catalogVars
    /\ UNCHANGED gestureVars

RoomUpload == \E url \in RoomImages : handleRoomUpload(url)

\* ------------------------------------------------------------- catalog
IsMalformed(url) == url = "malformed"

FallbackEntry(url) == [src |-> url, description |-> "a product"]

BatchesOf(n) == UNION {[1..k -> ProductUrls] : k \in 1..n}

AllOk(reqs) == \A i \in 1..Len(reqs) : reqs[i] = "ok"

\* Promise.allSettled in the place of Promise.all: nothing rejects
PromiseAll_Settled(settled, reqs) ==
    IF settled # "running" THEN settled
    ELSE IF \A i \in 1..Len(reqs) : reqs[i] # "pending" THEN "fulfilled"
    ELSE "running"

\* what Promise.all does when one more of its promises settles: it rejects
\* on the first rejection, fulfils when the last promise is fulfilled, and
\* ignores whatever settles after it has settled itself
PromiseAll(settled, reqs) ==
    IF settled # "running" THEN settled
    ELSE IF \E i \in 1..Len(reqs) : reqs[i] = "failed" THEN "rejected"
    ELSE IF AllOk(reqs) THEN "fulfilled"
    ELSE "running"

\* the continuation of handleProductUpload after its await (lines 118-124)
\* for a batch whose Promise.all went from `before` to `after`
ProductUploadContinue(before, after, reqs, results) ==
    /\ availableProducts' =
          IF before = "running" /\ after = "fulfilled"
          THEN availableProducts \o results ELSE availableProducts
    /\ error' =
          IF before = "running" /\ after = "rejected"
          THEN MsgDescribeFailed ELSE error
    /\ isProcessingProducts' =
          IF before = "running" /\ after # "running"
          THEN FALSE ELSE isProcessingProducts
    /\ batch' = [batch EXCEPT
          !.reqs = reqs, !.results = results, !.settled = after,
          !.errors = IF before = "running" /\ after = "rejected"
                     THEN @ + 1 ELSE @]

\* handleProductUpload(urls): the input is rendered once a room is set and
\* is disabled while isProcessingProducts (lines 337-342)
handleProductUpload(urls) ==
    LET reqs    == [i \in 1..Len(urls) |->
                      IF IsMalformed(urls[i]) THEN "ok" ELSE "pending"]
        results == [i \in 1..Len(urls) |->
                      IF IsMalformed(urls[i]) THEN FallbackEntry(urls[i])
                      ELSE [src |-> urls[i], description |-> ""]]
        after   == PromiseAll("running", reqs)
    IN  /\ originalRoomImage # NoImage
        /\ ~isProcessingProducts
        /\ Len(availableProducts) + Len(urls) <= MaxCatalog
        /\ availableProducts' =
              IF after = "fulfilled" THEN availableProducts \o results
              ELSE availableProducts
        /\ isProcessingProducts' = (after = "running")
        /\ error' = NoError
        /\ batch' = [reqs |-> reqs, results |-> results, settled |-> after,
                     base |-> availableProducts, errors |-> 0]
        /\ ev' = Event("productUpload", "")
        /\ UNCHANGED <<originalRoomImage, displayImage, placedProducts,
                       selectedProductId, isLoading, previousState, now,
                       pendingImages, harmonizeCalls, hist>>
        /\ UNCHANGED gestureVars

ProductUpload == \E urls \in BatchesOf(MaxBatch) : handleProductUpload(urls)

\* generateContent of request i answers with a text (lines 104-115)
DescribeResolve(i, text) ==
    LET reqs    == [batch.reqs EXCEPT ![i] = "ok"]
        results == [batch.results EXCEPT ![i].description = Trim(text)]
    IN  /\ i \in 1..Len(batch.reqs)
        /\ batch.reqs[i] = "pending"
        /\ ProductUploadContinue(batch.settled,
                                 PromiseAll(batch.settled, reqs), reqs, results)
        /\ ev' = Event("describeResolve", "")
        /\ UNCHANGED <<originalRoomImage, displayImage, placedProducts,
                       selectedProductId, isLoading, previousState, now,
                       pendingImages, harmonizeCalls, hist>>
        /\ UNCHANGED gestureVars

\* generateContent of request i throws, or answers without a text
DescribeFail(i) ==
    LET reqs == [batch.reqs EXCEPT ![i] = "failed"]
    IN  /\ i \in 1..Len(batch.reqs)
        /\ batch.reqs[i] = "pending"
        /\ ProductUploadContinue(batch.settled,
                                 PromiseAll(batch.settled, reqs), reqs,
                                 batch.results)
        /\ ev' = Event("describeFail", "")
        /\ UNCHANGED <<originalRoomImage, displayImage, placedProducts,
                       selectedProductId, isLoading, previousState, now,
                       pendingImages, harmonizeCalls, hist>>
        /\ UNCHANGED gestureVars

DescribeAnswer ==
    \E i \in 1..Len(batch.reqs) :
        \/ \E text \in DescriptionTexts : DescribeResolve(i, text)
        \/ DescribeFail(i)

\* ------------------------------------------------------------- drop
\* what handleDragStart puts on a drag that starts in the catalog
\* (lines 127-129, 386-396)
CatalogDrags == Range(availableProducts)

\* handleDrop: the payload is parsed and an Image starts loading; nothing
\* of the React state changes until it has loaded (lines 131-141)
handleDrop(data, pt) ==
    /\ data.src # ""
    /\ Len(pendingImages) + Len(placedProducts) < MaxPlaced
    /\ pendingImages' = Append(pendingImages,
          [src |-> data.src, description |-> data.description,
           clientX |-> pt[1], clientY |-> pt[2]])
    /\ ev' = EventAt("drop", data.src, pt)
    /\ UNCHANGED <<selectedProductId, now, harmonizeCalls, hist>>
    /\ UNCHANGED sessionVars
    /\ UNCHANGED catalogVars
    /\ UNCHANGED gestureVars

Drop(external) ==
    \E data \in CatalogDrags \cup external, pt \in DropPoints :
        handleDrop(data, pt)

\* the Product built by img.onload (lines 143-153) for an image of natural
\* size size = <<width, height>>, at clock value t
NewProduct(img, size, t) ==
    LET aspectRatio == Rat(size[1], size[2])
    IN  [id |-> t,
         src |-> img.src,
         description |-> img.description,
         x |-> RInt(img.clientX - WorkspaceRect.left - HalfInitialWidth),
         y |-> RSub(RInt(img.clientY - WorkspaceRect.top),
                    RDiv(RDiv(RInt(HalfInitialWidth), aspectRatio), RInt(2))),
         width |-> RInt(InitialWidth),
         height |-> RDiv(RInt(InitialWidth), aspectRatio),
         aspectRatio |-> aspectRatio]

\* img.onload of the k-th pending image; Date.now() has either advanced
\* since it was last read or not
DropImgLoad(k) ==
    /\ k \in 1..Len(pendingImages)
    /\ NaturalSize(pendingImages[k].src) # <<0, 0>>
    /\ Len(placedProducts) < MaxPlaced
    /\ \E t \in {now, now + 1} :
         /\ t <= MaxClock
         /\ now' = t
         /\ LET newProduct == NewProduct(pendingImages[k],
                                         NaturalSize(pendingImages[k].src), t)
            IN  /\ placedProducts' = Append(placedProducts, newProduct)
                /\ selectedProductId' = newProduct.id
    /\ pendingImages' = Remove(pendingImages, k)
    /\ ev' = Event("dropImgLoad", pendingImages[k].src)
    /\ hist' = [hist EXCEPT !.fresh = FALSE]
    /\ UNCHANGED <<originalRoomImage, displayImage, previousState, isLoading,
                   error, harmonizeCalls>>
    /\ UNCHANGED catalogVars
    /\ UNCHANGED gestureVars

\* the image cannot be decoded: no onerror handler is set, nothing happens
DropImgError(k) ==
    /\ k \in 1..Len(pendingImages)
    /\ NaturalSize(pendingImages[k].src) = <<0, 0>>
    /\ pendingImages' = Remove(pendingImages, k)
    /\ ev' = Event("dropImgError", pendingImages[k].src)
    /\ UNCHANGED <<selectedProductId, now, harmonizeCalls, hist>>
    /\ UNCHANGED sessionVars
    /\ UNCHANGED catalogVars
    /\ UNCHANGED gestureVars

DropImgSettle ==
    \E k \in 1..Len(pendingImages) : DropImgLoad(k) \/ DropImgError(k)

\* ------------------------------------------------------------- gestures
\* placedProducts.find(p => p.id === productId): the first match
Find(products, productId) ==
    LET hits == {i \in 1..Len(products) : products[i].id = productId}
    IN  IF hits = {} THEN None
        ELSE Some(products[CHOOSE i \in hits : \A j \in hits : i <= j])

\* the placements are drawn only over a display image (lines 420-451) and
\* lie under the loading overlay while isLoading (lines 410-418); the
\* resize handle exists on the selected placement only (line 442)
CanPress(i, type) ==
    /\ i \in 1..Len(placedProducts)
    /\ displayImage # NoImage
    /\ ~isLoading
    /\ type = "resize" => selectedProductId = placedProducts[i].id

\* handleMouseDown(e, product.id, type) on the i-th placement
handleMouseDown(i, type, pt) ==
    LET productId == placedProducts[i].id
        product   == Find(placedProducts, productId)
    IN  /\ CanPress(i, type)
        /\ selectedProductId' = productId
        /\ IF IsSome(product)
           THEN /\ interactionState' = Some(
                     [type |-> type, productId |-> productId,
                      startX |-> pt[1], startY |-> pt[2],
                      startLeft |-> Get(product).x,
                      startTop |-> Get(product).y,
                      startWidth |-> Get(product).width,
                      startHeight |-> Get(product).height])
                /\ listeners' = listeners \cup {"mousemove", "mouseup"}
           ELSE UNCHANGED gestureVars
        /\ ev' = EventAt("mouseDown", type, pt)
        /\ UNCHANGED <<now, pendingImages, harmonizeCalls, hist>>
        /\ UNCHANGED sessionVars
        /\ UNCHANGED catalogVars

\* a move that adds the delta to the placement's current position
MoveProduct_Incremental(p, g, dx, dy) ==
    [p EXCEPT !.x = RAdd(p.x, RInt(dx)),
              !.y = RAdd(p.y, RInt(dy))]

\* line 191
MoveProduct(p, g, dx, dy) ==
    [p EXCEPT !.x = RAdd(g.startLeft, RInt(dx)),
              !.y = RAdd(g.startTop, RInt(dy))]

\* the resize without its minimum
ResizeProduct_NoClamp(p, g, dx) ==
    LET newWidth == RAdd(g.startWidth, RInt(dx))
    IN  [p EXCEPT !.width = newWidth,
                  !.height = RDiv(newWidth, p.aspectRatio)]

\* a resize whose minimum applies to the width only
ResizeProduct_ClampWidthOnly(p, g, dx) ==
    LET newWidth  == RAdd(g.startWidth, RInt(dx))
        newHeight == RDiv(newWidth, p.aspectRatio)
    IN  [p EXCEPT
           !.width  = IF RGt(newWidth, RInt(MinWidth)) THEN newWidth
                      ELSE RInt(MinWidth),
           !.height = newHeight]

\* lines 194-196
ResizeProduct(p, g, dx) ==
    LET newWidth  == RAdd(g.startWidth, RInt(dx))
        newHeight == RDiv(newWidth, p.aspectRatio)
        minHeight == RDiv(RInt(MinWidth), p.aspectRatio)
    IN  [p EXCEPT
           !.width  = IF RGt(newWidth, RInt(MinWidth)) THEN newWidth
                      ELSE RInt(MinWidth),
           !.height = IF RGt(newHeight, minHeight) THEN newHeight
                      ELSE minHeight]

\* the updater of lines 188-200
MapProducts(prev, g, dx, dy) ==
    [i \in 1..Len(prev) |->
        IF prev[i].id = g.productId
        THEN IF g.type = "move" THEN MoveProduct(prev[i], g, dx, dy)
             ELSE IF g.type = "resize" THEN ResizeProduct(prev[i], g, dx)
             ELSE prev[i]
        ELSE prev[i]]

WithinExtent(products) ==
    \A i \in 1..Len(products) :
        /\ RAbsLe(products[i].x, MaxExtent)
        /\ RAbsLe(products[i].y, MaxExtent)
        /\ RAbsLe(products[i].width, MaxExtent)

\* handleMouseMove, the window's mousemove listener
handleMouseMove(pt) ==
    /\ "mousemove" \in listeners
    /\ IF IsSome(interactionState)
       THEN LET g  == Get(interactionState)
                dx == pt[1] - g.startX
                dy == pt[2] - g.startY
            IN  /\ placedProducts' = MapProducts(placedProducts, g, dx, dy)
                /\ WithinExtent(placedProducts')
       ELSE UNCHANGED placedProducts
    /\ ev' = EventAt("mouseMove", "", pt)
    /\ UNCHANGED <<originalRoomImage, displayImage, previousState, isLoading,
                   error, selectedProductId, now, pendingImages,
                   harmonizeCalls, hist>>
    /\ UNCHANGED catalogVars
    /\ UNCHANGED gestureVars

\* a mouseup listener that forgets to remove the listeners
handleMouseUp_KeepListeners ==
    /\ "mouseup" \in listeners
    /\ interactionState' = None
    /\ ev' = Event("mouseUp", "")
    /\ UNCHANGED <<selectedProductId, now, pendingImages, harmonizeCalls,
                   hist, listeners>>
    /\ UNCHANGED sessionVars
    /\ UNCHANGED catalogVars

\* handleMouseUp, the window's mouseup listener, for a button that goes up
\* outside the workspace: the click that follows is dispatched to an
\* ancestor of the workspace and reaches no handler
handleMouseUp ==
    /\ "mouseup" \in listeners
    /\ interactionState' = None
    /\ listeners' = listeners \ {"mousemove", "mouseup"}
    /\ ev' = Event("mouseUp", "")
    /\ UNCHANGED <<selectedProductId, now, pendingImages, harmonizeCalls,
                   hist>>
    /\ UNCHANGED sessionVars
    /\ UNCHANGED catalogVars

\* the button pressed on a placement goes up inside the workspace: the
\* window's mouseup listener runs (lines 203-207), and the browser then
\* dispatches the click event to the innermost element that contains both
\* the press and the release.  handleMouseDown stopped the mousedown event
\* only (line 161) and neither the placement nor its handle has a click
\* handler (lines 429-447), so the click bubbles to the workspace's
\* onClick (line 406), which is handleWorkspaceClick.  Both events are
\* dispatched for the one release, with no other task between them.
ReleaseInWorkspace ==
    /\ "mouseup" \in listeners
    /\ interactionState' = None
    /\ listeners' = listeners \ {"mousemove", "mouseup"}
    /\ selectedProductId' = 0
    /\ ev' = Event("mouseUp", "click")
    /\ UNCHANGED <<now, pendingImages, harmonizeCalls, hist>>
    /\ UNCHANGED sessionVars
    /\ UNCHANGED catalogVars

\* handleWorkspaceClick, for a click on empty workspace area
handleWorkspaceClick ==
    /\ selectedProductId' = 0
    /\ ev' = Event("workspaceClick", "")
    /\ UNCHANGED <<now, pendingImages, harmonizeCalls, hist>>
    /\ UNCHANGED sessionVars
    /\ UNCHANGED catalogVars
    /\ UNCHANGED gestureVars

\* ------------------------------------------------------------- session
\* the Undo button is rendered (line 459)
UndoOffered ==
    IsSome(previousState) /\ Len(placedProducts) = 0 /\ ~isLoading

\* the Harmonize button is rendered (line 463)
HarmonizeShown == Len(placedProducts) > 0

\* a Harmonize button without its disabled attribute
HarmonizeDisabled_Never == FALSE

\* the Harmonize button is disabled (line 463)
HarmonizeDisabled == isLoading

\* a reset that keeps the snapshot
handleReset_KeepSnapshot ==
    /\ originalRoomImage # NoImage
    /\ displayImage' = originalRoomImage
    /\ placedProducts' = <<>>
    /\ error' = NoError
    /\ ev' = Event("reset", "")
    /\ UNCHANGED <<originalRoomImage, isLoading, selectedProductId, now,
                   pendingImages, harmonizeCalls, hist, previousState>>
    /\ UNCHANGED catalogVars
    /\ UNCHANGED gestureVars

\* handleReset; the button is rendered once a room is set (line 458)
handleReset ==
    /\ originalRoomImage # NoImage
    /\ displayImage' = originalRoomImage
    /\ placedProducts' = <<>>
    /\ error' = NoError
    /\ previousState' = None
    /\ ev' = Event("reset", "")
    /\ UNCHANGED <<originalRoomImage, isLoading, selectedProductId, now,
                   pendingImages, harmonizeCalls, hist>>
    /\ UNCHANGED catalogVars
    /\ UNCHANGED gestureVars

\* handleUndo, from the Undo button
handleUndo ==
    /\ UndoOffered
    /\ IF IsSome(previousState)
       THEN /\ displayImage' = Get(previousState).displayImage
            /\ placedProducts' = Get(previousState).placedProducts
            /\ previousState' = None
       ELSE UNCHANGED <<displayImage, placedProducts, previousState>>
    /\ ev' = Event("undo", "")
    /\ UNCHANGED <<originalRoomImage, isLoading, error, selectedProductId,
                   now, pendingImages, harmonizeCalls, hist>>
    /\ UNCHANGED catalogVars
    /\ UNCHANGED gestureVars

\* the guard without its test of displayImage
HarmonizeRejects_PlacementsOnly == Len(placedProducts) = 0

\* the guard of lines 239-242
HarmonizeRejects == displayImage = NoImage \/ Len(placedProducts) = 0

\* the record hist.atInvoke keeps of an invocation
AtInvoke == [displayImage |-> displayImage, placedProducts |-> placedProducts]

\* a snapshot taken after the placements were cleared
Snapshot_DisplayOnly == [displayImage |-> displayImage, placedProducts |-> <<>>]

\* { displayImage, placedProducts: [...placedProducts] } (line 244)
Snapshot == [displayImage |-> displayImage, placedProducts |-> placedProducts]

\* what one handleHarmonize invocation keeps while it awaits: the values
\* its closure captured, the product images loaded so far (and the order
\* in which their loads completed), and what it has drawn on the canvas
NewCall == [displayImage |-> displayImage, placedProducts |-> placedProducts,
            stage |-> "loading", loaded |-> {}, order |-> <<>>,
            drawn |-> <<>>]

\* the catch block without the finally block
HarmonizeCatch_NoFinally(c) ==
    /\ error' = MsgHarmonizeFailed
    /\ UNCHANGED isLoading
    /\ harmonizeCalls' = IF c = 0 THEN harmonizeCalls
                         ELSE Remove(harmonizeCalls, c)
    /\ hist' = [hist EXCEPT !.fresh = FALSE,
                            !.atInvoke = IF c = 0 THEN Some(AtInvoke) ELSE @]

\* the catch and finally blocks (lines 316-321), for the call at index c
\* (0: the invocation itself, before any await)
HarmonizeCatch(c) ==
    /\ error' = MsgHarmonizeFailed
    /\ isLoading' = FALSE
    /\ harmonizeCalls' = IF c = 0 THEN harmonizeCalls
                         ELSE Remove(harmonizeCalls, c)
    /\ hist' = [hist EXCEPT !.fresh = FALSE,
                            !.atInvoke = IF c = 0 THEN Some(AtInvoke) ELSE @]

\* handleHarmonize up to its first await, from the Harmonize button
handleHarmonize(ctxOK) ==
    /\ HarmonizeShown
    /\ ~HarmonizeDisabled
    /\ Len(harmonizeCalls) < MaxInFlight
    /\ IF HarmonizeRejects
       THEN /\ error' = MsgAddProduct
            /\ ev' = Event("harmonize", "rejected")
            /\ hist' = [fresh |-> FALSE, atInvoke |-> Some(AtInvoke)]
            /\ UNCHANGED <<previousState, isLoading, harmonizeCalls>>
       ELSE /\ previousState' = Some(Snapshot)
            /\ IF ctxOK
               THEN /\ isLoading' = TRUE
                    /\ error' = NoError
                    /\ harmonizeCalls' = Append(harmonizeCalls, NewCall)
                    /\ ev' = Event("harmonize", "started")
                    /\ hist' = [fresh |-> FALSE,
                                atInvoke |-> Some(AtInvoke)]
               ELSE /\ HarmonizeCatch(0)
                    /\ ev' = Event("harmonize", "canvas")
    /\ UNCHANGED <<originalRoomImage, displayImage, placedProducts,
                   selectedProductId, now, pendingImages>>
    /\ UNCHANGED catalogVars
    /\ UNCHANGED gestureVars

HarmonizeClick == \E ctxOK \in BOOLEAN : handleHarmonize(ctxOK)

\* a forEach that walks the array from its end
DrawAll_Reversed(products) ==
    [index \in 1..Len(products) |-> products[Len(products) + 1 - index]]

\* the forEach of lines 277-280 over the array Promise.all fulfils with,
\* which has the order of imageLoadPromises: what is drawn, in drawing
\* order, is placedProducts[index] for each index in turn
DrawAll(products) == [index \in 1..Len(products) |-> products[index]]

\* img.onload of the i-th product image of call c; when it is the last one
\* Promise.all fulfils, the products are drawn and the request is sent
HarmonizeImgLoad(c, i) ==
    LET call   == harmonizeCalls[c]
        loaded == call.loaded \cup {i}
        all    == loaded = 1..Len(call.placedProducts)
    IN  /\ call.stage = "loading"
        /\ i \in 1..Len(call.placedProducts)
        /\ i \notin call.loaded
        /\ harmonizeCalls' = [harmonizeCalls EXCEPT ![c] =
              [call EXCEPT !.loaded = loaded,
                           !.order = Append(call.order, i),
                           !.stage = IF all THEN "api" ELSE "loading",
                           !.drawn = IF all THEN DrawAll(call.placedProducts)
                                     ELSE <<>>]]
        /\ ev' = Event("harmonizeImgLoad", "")
        /\ UNCHANGED <<selectedProductId, now, pendingImages, hist>>
        /\ UNCHANGED sessionVars
        /\ UNCHANGED catalogVars
        /\ UNCHANGED gestureVars

\* an image load promise with no onerror handler: the failed load settles
\* nothing and the call awaits Promise.all for ever
HarmonizeImgError_NoReject(c, i) ==
    LET call == harmonizeCalls[c]
    IN  /\ call.stage = "loading"
        /\ i \in 1..Len(call.placedProducts)
        /\ i \notin call.loaded
        /\ harmonizeCalls' = [harmonizeCalls EXCEPT ![c] =
              [call EXCEPT !.stage = "pending"]]
        /\ ev' = Event("harmonizeImgError", "")
        /\ UNCHANGED <<selectedProductId, now, pendingImages, hist>>
        /\ UNCHANGED sessionVars
        /\ UNCHANGED catalogVars
        /\ UNCHANGED gestureVars

\* img.onerror of the i-th product image of call c: Promise.all rejects
HarmonizeImgError(c, i) ==
    LET call == harmonizeCalls[c]
    IN  /\ call.stage = "loading"
        /\ i \in 1..Len(call.placedProducts)
        /\ i \notin call.loaded
        /\ HarmonizeCatch(c)
        /\ ev' = Event("harmonizeImgError", "")
        /\ UNCHANGED <<originalRoomImage, displayImage, placedProducts,
                       previousState, selectedProductId, now, pendingImages>>
        /\ UNCHANGED catalogVars
        /\ UNCHANGED gestureVars

\* the success path without setPlacedProducts([])
HarmonizeSuccess_KeepPlacements(part) ==
    /\ displayImage' = DataUrl(part)
    /\ UNCHANGED placedProducts

\* lines 309-312
HarmonizeSuccess(part) ==
    /\ displayImage' = DataUrl(part)
    /\ placedProducts' = <<>>

\* generateContent of call c answers; part is the data of the first part
\* with inlineData, or NoImagePart (lines 307-315)
HarmonizeResponse(c, part) ==
    LET call == harmonizeCalls[c]
    IN  /\ call.stage = "api"
        /\ IF part # NoImagePart
           THEN /\ HarmonizeSuccess(part)
                /\ isLoading' = FALSE
                /\ harmonizeCalls' = Remove(harmonizeCalls, c)
                /\ hist' = [hist EXCEPT !.fresh = TRUE]
                /\ UNCHANGED error
           ELSE /\ HarmonizeCatch(c)
                /\ UNCHANGED <<displayImage, placedProducts>>
        /\ ev' = Event("harmonizeResponse", part)
        /\ UNCHANGED <<originalRoomImage, previousState, selectedProductId,
                       now, pendingImages>>
        /\ UNCHANGED catalogVars
        /\ UNCHANGED gestureVars

\* generateContent of call c throws
HarmonizeThrow(c) ==
    LET call == harmonizeCalls[c]
    IN  /\ call.stage = "api"
        /\ HarmonizeCatch(c)
        /\ ev' = Event("harmonizeThrow", "")
        /\ UNCHANGED <<originalRoomImage, displayImage, placedProducts,
                       previousState, selectedProductId, now, pendingImages>>
        /\ UNCHANGED catalogVars
        /\ UNCHANGED gestureVars

HarmonizeProgress ==
    \E c \in 1..Len(harmonizeCalls) :
        \/ \E i \in 1..Len(harmonizeCalls[c].placedProducts) :
              HarmonizeImgLoad(c, i) \/ HarmonizeImgError(c, i)
        \/ \E part \in GeneratedImages \cup {NoImagePart} :
              HarmonizeResponse(c, part)
        \/ HarmonizeThrow(c)

\* ------------------------------------------------------------- specifications
MouseDown ==
    \E i \in 1..Len(placedProducts), type \in {"move", "resize"},
       pt \in MousePoints : handleMouseDown(i, type, pt)

MouseMove == \E pt \in MousePoints : handleMouseMove(pt)

\* The three specifications below start from Init and take a part of the
\* events each, so every state they reach is a state of Spec.  The catalog
\* events write availableProducts, isProcessingProducts, batch and error
\* only; the gesture events write x, y, width and height of placements,
\* selectedProductId, interactionState and listeners only.

\* the session: rooms, drops, harmonize, undo and reset
SessionNext ==
    \/ RoomUpload
    \/ Drop({LampDrag})
    \/ DropImgSettle
    \/ handleReset
    \/ handleUndo
    \/ HarmonizeClick
    \/ HarmonizeProgress

SpecSession == Init /\ [][SessionNext]_vars

\* the session in which every product-image load and every call of the
\* generation service that a harmonize invocation awaits settles at last:
\* the browser fires onload or onerror for each image (lines 266-273) and
\* generateContent resolves or throws (line 295)
SpecSessionFair == SpecSession /\ WF_vars(HarmonizeProgress)

\* the catalog: product uploads and their description requests
CatalogNext ==
    \/ RoomUpload
    \/ ProductUpload
    \/ DescribeAnswer
    \/ handleReset

SpecCatalog == Init /\ [][CatalogNext]_vars

\* the gestures: drops, selection, move and resize
GestureNext ==
    \/ RoomUpload
    \/ Drop({ChairDrag})
    \/ DropImgSettle
    \/ MouseDown
    \/ MouseMove
    \/ handleMouseUp
    \/ ReleaseInWorkspace
    \/ handleWorkspaceClick

SpecGesture == Init /\ [][GestureNext]_vars

\* every event of the program
Next ==
    \/ SessionNext
    \/ CatalogNext
    \/ GestureNext
    \/ Drop(ExternalDrags)

Spec == Init /\ [][Next]_vars

\* ------------------------------------------------------------- properties
\* the step just taken finished a harmonize request with an image
HarmonizeSucceeded(e) ==
    e.type = "harmonizeResponse" /\ e.arg \in GeneratedImages

\* the step just taken finished a harmonize request without one: the canvas
\* was unavailable, a product image failed to load, the call threw, or the
\* response had no inline image part
HarmonizeFailed(e) ==
    \/ e.type = "harmonize" /\ e.arg = "canvas"
    \/ e.type = "harmonizeImgError"
    \/ e.type = "harmonizeThrow"
    \/ e.type = "harmonizeResponse" /\ e.arg = NoImagePart

\* C1: in the state right after a harmonize request completed successfully
\* the Undo control is offered (previousState non-null, no placements, not
\* loading), whatever happened while the request was in flight.
C1_UndoAfterSuccess == HarmonizeSucceeded(ev) => UndoOffered

\* C2: whenever the Undo control is offered, the most recent harmonize
\* attempt succeeded and no placement was added and no room was loaded
\* since.
C2_UndoOnlyAfterSuccess == UndoOffered => hist.fresh

\* C3: a harmonize invoked with zero placements or without a display image
\* sets the "add a product first" error, starts no request and leaves
\* displayImage, placedProducts, previousState and isLoading unchanged.
C3_HarmonizePrecondition ==
    [][(/\ ev'.type = "harmonize"
        /\ (Len(placedProducts) = 0 \/ displayImage = NoImage))
       => /\ error' = MsgAddProduct
          /\ harmonizeCalls' = harmonizeCalls
          /\ UNCHANGED <<displayImage, placedProducts, previousState,
                         isLoading>>]_vars

C3_Witness ==
    /\ ev.type = "harmonize"
    /\ displayImage = NoImage
    /\ Len(placedProducts) > 0
    /\ error = MsgAddProduct
    /\ harmonizeCalls = <<>>

\* C4: a product-upload batch in which a description request failed adds
\* nothing to availableProducts, sets exactly one error and leaves
\* isProcessingProducts false, in whatever order its requests settle;
\* entries are added only when every request of the batch has resolved.
C4_BatchAtomicity ==
    /\ (\E i \in 1..Len(batch.reqs) : batch.reqs[i] = "failed")
         => /\ availableProducts = batch.base
            /\ batch.errors = 1
            /\ ~isProcessingProducts
    /\ availableProducts # batch.base
         => /\ AllOk(batch.reqs)
            /\ availableProducts = batch.base \o batch.results
            /\ batch.errors = 0

C4_Witness ==
    /\ Len(batch.reqs) >= 2
    /\ batch.reqs[1] = "ok"
    /\ batch.results[1].description = "a modern armchair"
    /\ batch.reqs[2] = "failed"
    /\ availableProducts = batch.base
    /\ error = MsgDescribeFailed

\* C5: when the generation service answers with an inline image part, the
\* completion step sets displayImage to the returned image, empties
\* placedProducts and clears isLoading; originalRoomImage and previousState
\* stay as they were.
C5_HarmonizeSuccess ==
    [][HarmonizeSucceeded(ev')
       => /\ displayImage' = DataUrl(ev'.arg)
          /\ placedProducts' = <<>>
          /\ isLoading' = FALSE
          /\ UNCHANGED <<originalRoomImage, previousState>>]_vars

C5_Witness ==
    /\ HarmonizeSucceeded(ev)
    /\ displayImage = DataUrl(ev.arg)
    /\ displayImage # originalRoomImage
    /\ placedProducts = <<>>
    /\ IsSome(previousState)
    /\ Len(Get(previousState).placedProducts) > 0

\* C6: when a harmonize request fails, the completion step leaves
\* displayImage and placedProducts as they were, sets the harmonize error
\* and clears isLoading.
C6_HarmonizeFailure ==
    [][HarmonizeFailed(ev')
       => /\ UNCHANGED <<displayImage, placedProducts>>
          /\ error' = MsgHarmonizeFailed
          /\ isLoading' = FALSE]_vars

C6_Witness ==
    /\ ev.type = "harmonizeResponse"
    /\ ev.arg = NoImagePart
    /\ Len(placedProducts) > 0
    /\ displayImage \in RoomImages
    /\ error = MsgHarmonizeFailed
    /\ ~isLoading

\* C7: an undo sets displayImage and placedProducts to the values they had
\* when harmonize was last invoked, and sets previousState to null, after
\* which Undo is no longer offered.
C7_UndoRoundTrip ==
    [][ev'.type = "undo"
       => /\ IsSome(hist.atInvoke)
          /\ displayImage' = Get(hist.atInvoke).displayImage
          /\ placedProducts' = Get(hist.atInvoke).placedProducts
          /\ previousState' = None
          /\ ~UndoOffered']_vars

C7_Witness ==
    /\ ev.type = "undo"
    /\ Len(placedProducts) >= 2
    /\ placedProducts[1].id # placedProducts[2].id
    /\ displayImage \in RoomImages
    /\ previousState = None

\* C8: at most one harmonize request is in flight; the Harmonize control is
\* disabled exactly while one is, and isLoading is true exactly while one
\* is.
C8_NoReentrantHarmonize ==
    /\ Len(harmonizeCalls) <= 1
    /\ HarmonizeDisabled <=> Len(harmonizeCalls) = 1
    /\ isLoading <=> Len(harmonizeCalls) = 1

C8_Witness ==
    /\ Len(harmonizeCalls) = 1
    /\ harmonizeCalls[1].stage = "api"
    /\ HarmonizeShown
    /\ HarmonizeDisabled

\* C9: after a pointer-move of a resize gesture no placement is narrower
\* than 20 or lower than 20/aspectRatio, and a placement of the gesture
\* whose startWidth + dx exceeds 20 has exactly that width.
C9_ResizeClamp ==
    [][(/\ ev'.type = "mouseMove"
        /\ IsSome(interactionState)
        /\ Get(interactionState).type = "resize")
       => LET g  == Get(interactionState)
              dx == ev'.pt[1] - g.startX
              w  == RAdd(g.startWidth, RInt(dx))
          IN  /\ Len(placedProducts') = Len(placedProducts)
              /\ \A i \in 1..Len(placedProducts') :
                    LET p == placedProducts'[i]
                    IN  /\ RGe(p.width, RInt(MinWidth))
                        /\ RGe(p.height, RDiv(RInt(MinWidth), p.aspectRatio))
                        /\ (p.id = g.productId /\ RGt(w, RInt(MinWidth)))
                             => p.width = w]_vars

\* a resize that asked for less than the minimum, and one that asked for more
C9_Witness ==
    /\ ev.type = "mouseMove"
    /\ IsSome(interactionState)
    /\ Get(interactionState).type = "resize"
    /\ \E i \in 1..Len(placedProducts) :
         /\ placedProducts[i].id = Get(interactionState).productId
         /\ placedProducts[i].width = RInt(MinWidth)
         /\ RGt(RInt(0),
                RAdd(Get(interactionState).startWidth,
                     RInt(ev.pt[1] - Get(interactionState).startX)))

\* the indices of the placements a step changed
Changed == {i \in 1..Len(placedProducts) :
              placedProducts'[i] # placedProducts[i]}

\* C10: a pointer-move of a move gesture changes at most one placement, the
\* target, and only its x and y; the other placements and the order of
\* placedProducts stay as they were.
C10_MoveFrame ==
    [][(/\ ev'.type = "mouseMove"
        /\ IsSome(interactionState)
        /\ Get(interactionState).type = "move")
       => /\ Len(placedProducts') = Len(placedProducts)
          /\ Cardinality(Changed) <= 1
          /\ \A i \in Changed :
                placedProducts'[i] =
                  [placedProducts[i] EXCEPT !.x = placedProducts'[i].x,
                                            !.y = placedProducts'[i].y]]_vars

\* the placements of an array in its order, each by what identifies it
Keys(products) ==
    [i \in 1..Len(products) |->
        [id |-> products[i].id, src |-> products[i].src]]

\* C11: every step leaves the order of placedProducts as it was, appends
\* one placement at its end, empties it, or puts back the snapshot's array;
\* a harmonize invocation captures the array as it is; and a call that has
\* built its composite has drawn exactly the captured placements in their
\* array order, whatever the order in which their images loaded.
C11_ZOrder ==
    [][/\ \/ Keys(placedProducts') = Keys(placedProducts)
          \/ /\ Len(placedProducts') = Len(placedProducts) + 1
             /\ SubSeq(placedProducts', 1, Len(placedProducts))
                  = placedProducts
          \/ placedProducts' = <<>>
          \/ /\ ev'.type = "undo"
             /\ IsSome(previousState)
             /\ placedProducts' = Get(previousState).placedProducts
       /\ (ev'.type = "harmonize" /\ ev'.arg = "started")
            => harmonizeCalls'[Len(harmonizeCalls')].placedProducts
                 = placedProducts
       /\ \A c \in 1..Len(harmonizeCalls') :
             LET call == harmonizeCalls'[c]
             IN  call.stage = "api"
                   => /\ Len(call.drawn) = Len(call.placedProducts)
                      /\ \A i \in 1..Len(call.drawn) :
                            call.drawn[i] = call.placedProducts[i]]_vars

\* a composite of two distinct placements whose second image loaded first
C11_Witness ==
    \E c \in 1..Len(harmonizeCalls) :
        LET call == harmonizeCalls[c]
        IN  /\ call.stage = "api"
            /\ call.order = <<2, 1>>
            /\ call.placedProducts[1] # call.placedProducts[2]
            /\ call.drawn = call.placedProducts

\* C12: the placement created when a dropped image of natural size (w, h)
\* has loaded has aspectRatio w/h, width 150 and height 150/aspectRatio, and
\* its centre (x + width/2, y + height/2) is the drop point relative to the
\* workspace's top-left corner.
C12_CreationGeometry ==
    [][ev'.type = "dropImgLoad"
       => \E k \in 1..Len(pendingImages) :
             /\ pendingImages' = Remove(pendingImages, k)
             /\ LET img  == pendingImages[k]
                    size == NaturalSize(img.src)
                    p    == placedProducts'[Len(placedProducts')]
                IN  /\ p.aspectRatio = Rat(size[1], size[2])
                    /\ p.width = RInt(InitialWidth)
                    /\ p.height = RDiv(RInt(InitialWidth), p.aspectRatio)
                    /\ RAdd(p.x, RDiv(p.width, RInt(2)))
                         = RInt(img.clientX - WorkspaceRect.left)
                    /\ RAdd(p.y, RDiv(p.height, RInt(2)))
                         = RInt(img.clientY - WorkspaceRect.top)]_vars

\* C14: a reset, taken with a room loaded, leaves displayImage equal to
\* originalRoomImage, placedProducts empty, previousState null and error
\* null, and changes neither originalRoomImage nor availableProducts.
C14_ResetPostcondition ==
    [][(ev'.type = "reset" /\ originalRoomImage # NoImage)
       => /\ displayImage' = originalRoomImage'
          /\ placedProducts' = <<>>
          /\ previousState' = None
          /\ error' = NoError
          /\ originalRoomImage' = originalRoomImage
          /\ availableProducts' = availableProducts]_vars

\* a reset that had a harmonized image, a snapshot, placements and an error
\* to clear
C14_Witness ==
    /\ ev.type = "reset"
    /\ displayImage = originalRoomImage
    /\ placedProducts = <<>>
    /\ previousState = None
    /\ error = NoError
    /\ hist.fresh

\* C13: after a complete click on a placement (the press, the release on
\* it, and the click event that follows) selectedProductId is that
\* placement's id; a click on empty workspace area sets it to null.
C13_SelectionByClick ==
    [][/\ (/\ ev'.type = "mouseUp"
           /\ ev'.arg = "click"
           /\ IsSome(interactionState))
          => selectedProductId' = Get(interactionState).productId
       /\ ev'.type = "workspaceClick" => selectedProductId' = 0]_vars

\* C15: a pointer-down records the pointer position and the geometry of a
\* placement with the pressed id; every pointer-move of the gesture leaves
\* that record as it is and puts the target at (startLeft + (pointerX -
\* startX), startTop + (pointerY - startY)) in a move gesture, and gives it
\* the width max(20, startWidth + (pointerX - startX)) in a resize gesture,
\* whatever the pointer-moves before it were.
C15_CumulativeDeltas ==
    [][/\ (ev'.type = "mouseDown" /\ IsSome(interactionState'))
          => LET g == Get(interactionState')
             IN  /\ g.startX = ev'.pt[1]
                 /\ g.startY = ev'.pt[2]
                 /\ \E i \in 1..Len(placedProducts) :
                       /\ placedProducts[i].id = g.productId
                       /\ placedProducts[i].x = g.startLeft
                       /\ placedProducts[i].y = g.startTop
                       /\ placedProducts[i].width = g.startWidth
       /\ (ev'.type = "mouseMove" /\ IsSome(interactionState))
          => LET g  == Get(interactionState)
                 dx == ev'.pt[1] - g.startX
                 dy == ev'.pt[2] - g.startY
                 w  == RAdd(g.startWidth, RInt(dx))
             IN  /\ interactionState' = interactionState
                 /\ \A i \in 1..Len(placedProducts') :
                       placedProducts'[i].id = g.productId
                         => /\ g.type = "move"
                                => /\ placedProducts'[i].x
                                        = RAdd(g.startLeft, RInt(dx))
                                   /\ placedProducts'[i].y
                                        = RAdd(g.startTop, RInt(dy))
                            /\ g.type = "resize"
                                => placedProducts'[i].width
                                     = IF RGe(w, RInt(MinWidth)) THEN w
                                       ELSE RInt(MinWidth)]_vars

\* a move gesture whose last pointer-move left the pointer away from where
\* it was pressed, on a placement that an earlier gesture had moved already
C15_Witness ==
    /\ ev.type = "mouseMove"
    /\ IsSome(interactionState)
    /\ Get(interactionState).type = "move"
    /\ ev.pt[1] # Get(interactionState).startX
    /\ \E i \in 1..Len(placedProducts) :
          /\ placedProducts[i].id = Get(interactionState).productId
          /\ \A pt \in DropPoints :
                Get(interactionState).startLeft
                  # RInt(pt[1] - WorkspaceRect.left - HalfInitialWidth)
          /\ placedProducts[i].x
               = RAdd(Get(interactionState).startLeft,
                      RInt(ev.pt[1] - Get(interactionState).startX))

\* there is at most one gesture record, and the window's mousemove and
\* mouseup listeners are installed exactly when there is one
GestureConsistent ==
    /\ Len(interactionState) <= 1
    /\ IF IsSome(interactionState)
       THEN listeners = {"mousemove", "mouseup"}
       ELSE listeners = {}

\* C16: in every state at most one gesture record exists and the global
\* listeners are installed if and only if a gesture is active; every
\* pointer-up leaves no gesture and no listener, whatever the pointer
\* position; a pointer-move without a gesture changes no placement.
C16_GestureExclusivity ==
    [][/\ GestureConsistent
       /\ GestureConsistent'
       /\ ev'.type = "mouseUp"
            => interactionState' = None /\ listeners' = {}
       /\ (ev'.type = "mouseMove" /\ ~IsSome(interactionState))
            => placedProducts' = placedProducts]_vars

\* a pointer-up outside the workspace that ended a gesture on a placement
C16_Witness ==
    /\ ev.type = "mouseUp"
    /\ interactionState = None
    /\ listeners = {}
    /\ selectedProductId # 0
    /\ Len(placedProducts) > 0

\* C17: no two elements of placedProducts have the same id.
C17_UniqueIds ==
    \A i, j \in 1..Len(placedProducts) :
        i # j => placedProducts[i].id # placedProducts[j].id

\* the placement has the aspect ratio of its image and the height that its
\* width and that ratio give
KeepsAspectRatio(p) ==
    /\ p.aspectRatio = Rat(NaturalSize(p.src)[1], NaturalSize(p.src)[2])
    /\ p.height = RDiv(p.width, p.aspectRatio)

\* C18: every placement, on the workspace or in the snapshot that undo
\* puts back, satisfies height = width / aspectRatio, with aspectRatio the
\* value computed from the image's natural size at creation.
C18_AspectRatio ==
    /\ \A i \in 1..Len(placedProducts) : KeepsAspectRatio(placedProducts[i])
    /\ IsSome(previousState)
         => \A i \in 1..Len(Get(previousState).placedProducts) :
               KeepsAspectRatio(Get(previousState).placedProducts[i])

\* a placement that a resize gesture made wider, next to one that a resize
\* gesture brought to the minimum
C18_Witness ==
    /\ IsSome(interactionState)
    /\ Get(interactionState).type = "resize"
    /\ \E i, j \in 1..Len(placedProducts) :
          /\ RGt(placedProducts[i].width, RInt(InitialWidth))
          /\ placedProducts[j].width = RInt(MinWidth)
          /\ KeepsAspectRatio(placedProducts[i])
          /\ KeepsAspectRatio(placedProducts[j])

\* C19: the placements that a successful harmonize response removes are
\* the ones its invocation captured and drew into the composite; a
\* placement added while the request was in flight is still there.
C19_ClearsOnlyComposited ==
    [][HarmonizeSucceeded(ev')
       => \E c \in 1..Len(harmonizeCalls) :
             /\ harmonizeCalls' = Remove(harmonizeCalls, c)
             /\ Range(placedProducts) \ Range(placedProducts')
                  \subseteq Range(harmonizeCalls[c].drawn)]_vars

\* C20: whenever placedProducts is non-empty, displayImage and
\* originalRoomImage are non-null.
C20_PlacementsNeedRoom ==
    Len(placedProducts) > 0
      => displayImage # NoImage /\ originalRoomImage # NoImage

\* C21: when the awaited image loads and the service call settle at last,
\* every state with isLoading true is followed by a state with isLoading
\* false, on the success path and on every failure path; and whenever
\* isLoading is false and there is at least one placement, Harmonize can be
\* invoked.
C21_HarmonizingEnds ==
    /\ isLoading ~> ~isLoading
    /\ [](~isLoading /\ Len(placedProducts) > 0 => ENABLED HarmonizeClick)

\* a request in flight that has just failed, with a placement left on the
\* workspace, so that Harmonize is offered again and not disabled
C21_Witness ==
    /\ ev.type \in {"harmonizeImgError", "harmonizeThrow"}
    /\ ~isLoading
    /\ harmonizeCalls = <<>>
    /\ HarmonizeShown
    /\ ~HarmonizeDisabled
    /\ ENABLED HarmonizeClick

====
